---------------------------- MODULE Spec2Model ----------------------------
(***************************************************************************)
(* Autonomo: the staged validation pipeline (SafetyManager, Autonomo.evolve,*)
(* ExecutorAgent) and the dynamic feature registry (FeatureManager).        *)
(*                                                                         *)
(* Four specifications share the state:                                    *)
(*   PipelineSpec  evolve() and agent collaboration, one candidate after   *)
(*                 another, down to the files and features they create;    *)
(*   Spec          the feature registry's operations, interleaved at their *)
(*                 await points, over a storage root of feature files;     *)
(*   SafetySpec    SafetyManager's checks of a code text, called one by    *)
(*                 one on texts that sit on the checks' thresholds;        *)
(*   ServerSpec    the process as it starts and serves: the dynamic routes *)
(*                 it mounts and the requests that arrive on them.         *)
(***************************************************************************)
EXTENDS Integers, Sequences, FiniteSets, TLC

VARIABLES
    files,      \* storage root ./dynamic: file name -> what the file holds
    features,   \* FeatureManager.features (the Map): feature id -> feature
    calls,      \* per feature object: executeFeature calls awaiting their
                \* callee, and a tally of those that settled (history)
    clock,      \* the ticks taken so far: one by every Date.now() read and
                \* one by every uuid drawn, so both are fresh
    lastOp,     \* the operation that ran last and what it returned or threw
    evo,        \* the evolve() or collaborate() run in progress
    quarantine, \* logs/quarantine: the records written by quarantineCode
    hostLoaded, \* code texts require()d into the host process
    runs,       \* candidates started so far
    probe,      \* SafetyManager: the check called last, on what, and what
                \* it returned; the sandbox contexts still alive
    app         \* the Express app: the dynamic routes mounted, the requests
                \* served so far and the last one's response

vars == <<files, features, calls, clock, lastOp, evo, quarantine,
          hostLoaded, runs, probe, app>>

registryVars == <<files, features, calls, clock, hostLoaded>>
pipelineVars == <<evo, quarantine>>
serviceVars == <<probe, app>>

-----------------------------------------------------------------------------
(* Bounds of the model.                                                    *)

\* the clock's last tick
MaxClock == 3
\* candidates (evolve or collaborate runs) in one behaviour
MaxRuns == 1

\* the sandbox contexts that may be alive at once
MaxContexts == 2

NoValue == "none"

-----------------------------------------------------------------------------
(* SafetyManager: limits and lists.                                        *)

maxFileSize == 102400
maxExecutionTime == 30000
maxMemoryUsage == 52428800

allowedModules ==
    <<"crypto", "util", "events", "stream", "uuid", "joi", "lodash",
      "moment", "chalk", "winston">>

suspiciousKeywords ==
    <<"delete", "remove", "destroy", "hack", "exploit", "malware", "virus",
      "backdoor", "shell", "exec", "password", "secret", "token",
      "credential">>

\* the keys of planSchema, in the order Joi visits them
planSchemaKeys ==
    <<"id", "title", "description", "category", "complexity", "estimatedLOC",
      "dependencies", "files", "safetyConsiderations">>

requiredKeys == {"id", "title", "description", "category", "complexity"}

Categories == {"api", "utility", "ui", "integration", "data"}
Complexities == {"low", "medium", "high"}

Range(s) == {s[i] : i \in DOMAIN s}

\* index of the first element of s satisfying the test, 0 when there is none
RECURSIVE FirstIn(_, _, _)
FirstIn(s, Bad, i) ==
    IF i > Len(s) THEN 0
    ELSE IF s[i] \in Bad THEN i
    ELSE FirstIn(s, Bad, i + 1)


-----------------------------------------------------------------------------
(* Plans.  A plan is the object handed to validatePlan: the keys it has,    *)
(* and the values of the keys the checks read.  A string is known by its    *)
(* length and by the denylisted words its lower-cased text contains.        *)

StrInfo ==
    [s \in {"Weather API", "Quote Generator", "Hack the system", "Hi",
            "Get the weather for a city", "Say something wise today",
            "...", "dynamic/weather.js", "dynamic/quotes.js",
            "../etc/cron.d/job", "/tmp/feature.js", "dynamic/../index.js",
            "lodash", "moment", "axios", "shelljs", "express",
            "plan-1", "plan-2", "main"} |->
        CASE s = "Weather API" -> [len |-> 11, terms |-> {}]
          [] s = "Quote Generator" -> [len |-> 15, terms |-> {}]
          [] s = "Hack the system" -> [len |-> 15, terms |-> {"hack"}]
          [] s = "Hi" -> [len |-> 2, terms |-> {}]
          [] s = "Get the weather for a city" -> [len |-> 26, terms |-> {}]
          [] s = "Say something wise today" -> [len |-> 24, terms |-> {}]
          [] s = "..." -> [len |-> 3, terms |-> {}]
          [] s = "dynamic/weather.js" -> [len |-> 18, terms |-> {}]
          [] s = "dynamic/quotes.js" -> [len |-> 17, terms |-> {}]
          [] s = "../etc/cron.d/job" -> [len |-> 17, terms |-> {}]
          [] s = "/tmp/feature.js" -> [len |-> 15, terms |-> {}]
          [] s = "dynamic/../index.js" -> [len |-> 19, terms |-> {}]
          [] s = "express" -> [len |-> 7, terms |-> {}]
          [] s = "lodash" -> [len |-> 6, terms |-> {}]
          [] s = "moment" -> [len |-> 6, terms |-> {}]
          [] s = "axios" -> [len |-> 5, terms |-> {}]
          [] s = "shelljs" -> [len |-> 7, terms |-> {"shell"}]
          [] s = "plan-1" -> [len |-> 6, terms |-> {}]
          [] s = "plan-2" -> [len |-> 6, terms |-> {}]
          [] s = "main" -> [len |-> 4, terms |-> {}]]

\* path.split('/')
Segments(path) ==
    CASE path = "dynamic/weather.js" -> <<"dynamic", "weather.js">>
      [] path = "dynamic/quotes.js" -> <<"dynamic", "quotes.js">>
      [] path = "../etc/cron.d/job" -> <<"..", "etc", "cron.d", "job">>
      [] path = "/tmp/feature.js" -> <<"", "tmp", "feature.js">>
      [] path = "dynamic/../index.js" -> <<"dynamic", "..", "index.js">>

\* file.path.startsWith('dynamic/')
StartsWithDynamic(path) ==
    Len(Segments(path)) >= 2 /\ Segments(path)[1] = "dynamic"

\* the strings JSON.stringify(plan) writes out: every value of every key
PlanStrings(plan) ==
    (IF "id" \in plan.keys THEN {plan.id} ELSE {})
    \cup (IF "title" \in plan.keys THEN {plan.title} ELSE {})
    \cup (IF "description" \in plan.keys THEN {plan.description} ELSE {})
    \cup (IF "dependencies" \in plan.keys THEN Range(plan.dependencies) ELSE {})
    \cup (IF "files" \in plan.keys
             THEN {plan.files[i].path : i \in DOMAIN plan.files} ELSE {})

\* the denylisted words found in JSON.stringify(plan).toLowerCase()
SerializedTerms(plan) ==
    UNION {StrInfo[s].terms : s \in PlanStrings(plan)}

BasePlan ==
    [id |-> "plan-1",
     keys |-> requiredKeys \cup {"dependencies", "files"},
     title |-> "Weather API",
     description |-> "Get the weather for a city",
     category |-> "api",
     complexity |-> "low",
     dependencies |-> <<"lodash">>,
     files |-> <<[path |-> "dynamic/weather.js", complete |-> TRUE]>>]

SecondPlan ==
    [BasePlan EXCEPT !.id = "plan-2", !.title = "Quote Generator",
                     !.description = "Say something wise today",
                     !.category = "utility",
                     !.dependencies = <<>>,
                     !.files = <<[path |-> "dynamic/quotes.js",
                                  complete |-> TRUE]>>]

\* Scenario A of the specification: no id, a three-character description
ScenarioAPlan ==
    [BasePlan EXCEPT !.keys = {"title", "description", "category", "complexity"},
                     !.title = "Hack the system", !.description = "...",
                     !.category = "utility",
                     !.dependencies = <<>>, !.files = <<>>]

PlanSamples ==
    {BasePlan, SecondPlan, ScenarioAPlan,
     [BasePlan EXCEPT !.title = "Hack the system"],
     [BasePlan EXCEPT !.keys = @ \ {"description"}],
     [BasePlan EXCEPT !.keys = @ \cup {"created"}],
     [BasePlan EXCEPT !.files = <<[path |-> "../etc/cron.d/job",
                                   complete |-> TRUE]>>],
     [BasePlan EXCEPT !.dependencies = <<"lodash", "axios", "shelljs">>],
     [BasePlan EXCEPT !.dependencies = <<"lodash", "axios">>],
     [BasePlan EXCEPT !.dependencies = <<"express", "lodash", "axios">>],
     [BasePlan EXCEPT !.files = <<[path |-> "dynamic/../index.js",
                                   complete |-> TRUE]>>],
     [BasePlan EXCEPT !.files = <<[path |-> "dynamic/weather.js",
                                   complete |-> TRUE],
                                  [path |-> "/tmp/feature.js",
                                   complete |-> TRUE]>>,
                      !.dependencies = <<"axios">>],
     [BasePlan EXCEPT !.title = "Hack the system",
                      !.dependencies = <<"shelljs">>,
                      !.files = <<[path |-> "../etc/cron.d/job",
                                   complete |-> TRUE]>>]}

-----------------------------------------------------------------------------
(* SafetyManager.validatePlan.                                             *)

\* does the value of schema key k break its rule?  (Joi, planSchema)
KeyInvalid(plan, k) ==
    IF k \notin plan.keys THEN k \in requiredKeys
    ELSE CASE k = "title" ->
                StrInfo[plan.title].len < 3 \/ StrInfo[plan.title].len > 100
           [] k = "description" ->
                StrInfo[plan.description].len < 10
                \/ StrInfo[plan.description].len > 1000
           [] k = "category" -> plan.category \notin Categories
           [] k = "complexity" -> plan.complexity \notin Complexities
           [] k = "dependencies" -> Len(plan.dependencies) > 10
           [] k = "files" ->
                \/ \E i \in DOMAIN plan.files : ~plan.files[i].complete
                \/ Len(plan.files) > 5
           [] OTHER -> FALSE

\* planSchema.validate(plan).error: the first key at fault, else an unknown
\* key, else none
SchemaError(plan) ==
    LET bad == {k \in Range(planSchemaKeys) : KeyInvalid(plan, k)}
        i == FirstIn(planSchemaKeys, bad, 1)
        unknown == plan.keys \ Range(planSchemaKeys)
    IN  IF i > 0 THEN <<planSchemaKeys[i], "is invalid">>
        ELSE IF unknown # {} THEN <<CHOOSE k \in unknown : TRUE, "is not allowed">>
        ELSE <<>>

\* checkSuspiciousContent as it would be with the path loop before the
\* keyword loop
checkSuspiciousContentPathsFirst(plan) ==
    LET k == FirstIn(suspiciousKeywords, SerializedTerms(plan), 1)
        paths == IF "files" \in plan.keys
                    THEN [i \in DOMAIN plan.files |-> plan.files[i].path]
                    ELSE <<>>
        unsafe == {p \in Range(paths) : ~StartsWithDynamic(p)}
        f == FirstIn(paths, unsafe, 1)
    IN  IF f > 0
           THEN [safe |-> FALSE, reason |-> <<"Unsafe file path", paths[f]>>]
        ELSE IF k > 0
           THEN [safe |-> FALSE,
                 reason |-> <<"Suspicious keyword detected", suspiciousKeywords[k]>>]
        ELSE [safe |-> TRUE, reason |-> <<>>]

checkSuspiciousContent(plan) ==
    LET k == FirstIn(suspiciousKeywords, SerializedTerms(plan), 1)
        paths == IF "files" \in plan.keys
                    THEN [i \in DOMAIN plan.files |-> plan.files[i].path]
                    ELSE <<>>
        unsafe == {p \in Range(paths) : ~StartsWithDynamic(p)}
        f == FirstIn(paths, unsafe, 1)
    IN  IF k > 0
           THEN [safe |-> FALSE,
                 reason |-> <<"Suspicious keyword detected", suspiciousKeywords[k]>>]
        ELSE IF f > 0
           THEN [safe |-> FALSE, reason |-> <<"Unsafe file path", paths[f]>>]
        ELSE [safe |-> TRUE, reason |-> <<>>]

\* index of the last element of s satisfying the test, 0 when there is none
RECURSIVE LastIn(_, _, _)
LastIn(s, Bad, i) ==
    IF i < 1 THEN 0
    ELSE IF s[i] \in Bad THEN i
    ELSE LastIn(s, Bad, i - 1)

\* validateDependencies as it would be if the loop kept the last offender
\* instead of returning at the first
validateDependenciesLast(dependencies) ==
    LET d == LastIn(dependencies,
                    Range(dependencies) \ Range(allowedModules),
                    Len(dependencies))
    IN  IF d > 0
           THEN [safe |-> FALSE,
                 reason |-> <<"Dependency is not in the allowed modules list",
                              dependencies[d]>>]
           ELSE [safe |-> TRUE, reason |-> <<>>]

validateDependencies(dependencies) ==
    LET d == FirstIn(dependencies,
                     Range(dependencies) \ Range(allowedModules), 1)
    IN  IF d > 0
           THEN [safe |-> FALSE,
                 reason |-> <<"Dependency is not in the allowed modules list",
                              dependencies[d]>>]
           ELSE [safe |-> TRUE, reason |-> <<>>]

\* validatePlan as it would be with the dependency check before the content
\* check
validatePlanDependenciesFirst(plan) ==
    LET error == SchemaError(plan)
        suspiciousCheck == checkSuspiciousContent(plan)
        dependencyCheck ==
            validateDependencies(IF "dependencies" \in plan.keys
                                    THEN plan.dependencies ELSE <<>>)
    IN  IF error # <<>>
           THEN [approved |-> FALSE,
                 reason |-> <<"Plan validation failed">> \o error,
                 severity |-> "high"]
        ELSE IF ~dependencyCheck.safe
           THEN [approved |-> FALSE, reason |-> dependencyCheck.reason,
                 severity |-> "medium"]
        ELSE IF ~suspiciousCheck.safe
           THEN [approved |-> FALSE, reason |-> suspiciousCheck.reason,
                 severity |-> "high"]
        ELSE [approved |-> TRUE,
              reason |-> <<"Plan passed all safety checks">>,
              severity |-> "none"]

validatePlan(plan) ==
    LET error == SchemaError(plan)
        suspiciousCheck == checkSuspiciousContent(plan)
        dependencyCheck ==
            validateDependencies(IF "dependencies" \in plan.keys
                                    THEN plan.dependencies ELSE <<>>)
    IN  IF error # <<>>
           THEN [approved |-> FALSE,
                 reason |-> <<"Plan validation failed">> \o error,
                 severity |-> "high"]
        ELSE IF ~suspiciousCheck.safe
           THEN [approved |-> FALSE, reason |-> suspiciousCheck.reason,
                 severity |-> "high"]
        ELSE IF ~dependencyCheck.safe
           THEN [approved |-> FALSE, reason |-> dependencyCheck.reason,
                 severity |-> "medium"]
        ELSE [approved |-> TRUE,
              reason |-> <<"Plan passed all safety checks">>,
              severity |-> "none"]

-----------------------------------------------------------------------------
(* Code texts.  A code text is known by what the checks measure of it and   *)
(* by what running it yields:                                               *)
(*   vm       the run inside SafetyManager's sandbox (wrapped in a function)*)
(*   raw      the run inside ExecutorAgent's sandbox (vm.run(code))         *)
(*   returns  the value the text returns when it is a function body         *)
(*   exports  its module.exports when the text is required as a file        *)
(*   requires the modules it asks require() for, in order, before it does  *)
(*            anything else; guarded: inside a try whose catch goes on     *)
(*   rearms   it arms a timer (through a name the patterns miss) whose     *)
(*            callback arms the timer again; the samples arm no other timer*)
(* A callable's behaviour: "none" (not a function), "ok", "throws", "hangs".*)

bannedPatterns ==
    <<"require child_process", "require fs", "require net", "require http",
      "require https", "require cluster", "require worker_threads",
      "process.exit", "process.kill", "process.abort",
      ".writeFile", ".writeFileSync", ".unlink", ".unlinkSync", ".rmdir",
      ".rmdirSync", "fetch(", "axios.", "XMLHttpRequest",
      "eval(", "Function(", "setTimeout(", "setInterval(",
      "global.", "globalThis.", "while (true)", "for (;;)">>

NoSurface == [kind |-> "object", execute |-> "none", handler |-> "none",
              health |-> "none"]

GoodCode ==
    [name |-> "good", length |-> 400, patterns |-> {}, lines |-> 20,
     functionCount |-> 2, loopCount |-> 1, conditionalCount |-> 2,
     vm |-> [threw |-> NoValue, executionTime |-> 5, memoryDelta |-> 4096],
     requires |-> <<>>, guarded |-> FALSE, rearms |-> FALSE,
     raw |-> [threw |-> "Illegal return statement"],
     returns |-> [NoSurface EXCEPT !.execute = "ok"],
     exports |-> [NoSurface EXCEPT !.execute = "ok"]]

CodeSamples ==
    {GoodCode,
     \* returns an object whose execute always throws
     [GoodCode EXCEPT !.name = "broken", !.returns.execute = "throws",
                      !.exports.execute = "throws"],
     \* returns an object whose execute never settles
     [GoodCode EXCEPT !.name = "hanging", !.returns.execute = "hangs",
                      !.exports.execute = "hangs"],
     \* defines, and never calls, a function that uses eval(
     [GoodCode EXCEPT !.name = "eval", !.patterns = {20},
                      !.raw.threw = NoValue, !.returns.kind = "undefined",
                      !.returns.execute = "none"],
     \* while (true) {} : Scenario B
     [GoodCode EXCEPT !.name = "spin", !.patterns = {26}, !.length = 15,
                      !.lines = 1,
                      !.vm.threw = "Script execution timed out",
                      !.vm.executionTime = 30001,
                      !.raw.threw = "Script execution timed out"],
     \* one byte over the size limit
     [GoodCode EXCEPT !.name = "big", !.length = 102401],
     \* one byte over the size limit, and it calls eval(
     [GoodCode EXCEPT !.name = "big eval", !.length = 102401,
                      !.patterns = {20}, !.vm.threw = "eval is not defined",
                      !.raw.threw = "eval is not defined"],
     \* calls eval( and then process.exit
     [GoodCode EXCEPT !.name = "eval exit", !.patterns = {8, 20},
                      !.vm.threw = "eval is not defined",
                      !.raw.threw = "eval is not defined"],
     \* 501 lines
     [GoodCode EXCEPT !.name = "long", !.lines = 501],
     \* throws while it initialises
     [GoodCode EXCEPT !.name = "throwing", !.vm.threw = "boom",
                      !.raw.threw = "boom", !.returns.kind = "throws",
                      !.exports.execute = "none"],
     \* loops without a banned shape until the sandbox stops it
     [GoodCode EXCEPT !.name = "slow", !.vm.threw = "Script execution timed out",
                      !.vm.executionTime = 30002,
                      !.raw.threw = "Script execution timed out"],
     \* allocates more than the heap bound and returns
     [GoodCode EXCEPT !.name = "hungry", !.vm.memoryDelta = 52428801,
                      !.raw.threw = NoValue]}

\* Texts on the thresholds of the static analysis: every combination of a
\* length, a line count, a function count, a loop count and a conditional
\* count at its limit or one above it, with and without a banned pattern.
ThresholdCodes ==
    {[GoodCode EXCEPT !.name = "threshold", !.length = len, !.lines = lines,
                      !.functionCount = fns, !.loopCount = loops,
                      !.conditionalCount = conds, !.patterns = pats] :
        len \in {maxFileSize, maxFileSize + 1}, lines \in {500, 501},
        fns \in {20, 21}, loops \in {10, 11}, conds \in {15, 16},
        pats \in {{}, {20}}}

\* Texts that ask the sandbox for modules, and texts that keep running after
\* the sandbox has returned.
SandboxCodes ==
    {\* const crypto = require('crypto')
     [GoodCode EXCEPT !.name = "needs crypto", !.requires = <<"crypto">>],
     \* const os = require('os')
     [GoodCode EXCEPT !.name = "needs os", !.requires = <<"os">>],
     \* require('crypto'), require('os'), require('dns')
     [GoodCode EXCEPT !.name = "needs three",
                      !.requires = <<"crypto", "os", "dns">>],
     \* try { os = require('os') } catch (e) { os = null }
     [GoodCode EXCEPT !.name = "tries os", !.requires = <<"os">>,
                      !.guarded = TRUE],
     \* const arm = setTimeout; const tick = () => arm(tick, 100); tick();
     \* for (let i = 0; ; i++) {}
     [GoodCode EXCEPT !.name = "rearming spin", !.rearms = TRUE,
                      !.vm.threw = "Script execution timed out",
                      !.vm.executionTime = 30001,
                      !.raw.threw = "Script execution timed out"],
     \* the same timer, and the text returns at once
     [GoodCode EXCEPT !.name = "rearming", !.rearms = TRUE]}

\* the names a text may pass to the sandbox's require
ModuleNames == {"crypto", "lodash", "os", "dns", "fs", "child_process"}

-----------------------------------------------------------------------------
(* SafetyManager.testInSandbox and its two stages.                         *)

\* analyzeComplexity as it would be if many loops counted as high risk
analyzeComplexityLoopsHigh(code) ==
    LET verdict ==
            IF code.lines > 500 THEN <<"high", "Too many lines of code">>
            ELSE IF code.functionCount > 20 THEN <<"high", "Too many functions">>
            ELSE IF code.loopCount > 10 THEN <<"high", "High number of loops">>
            ELSE IF code.conditionalCount > 15
                THEN <<"medium", "High number of conditionals">>
            ELSE <<"low", "Code complexity is acceptable">>
    IN  [reason |-> verdict[2],
         lines |-> code.lines, functionCount |-> code.functionCount,
         loopCount |-> code.loopCount,
         conditionalCount |-> code.conditionalCount,
         risk |-> verdict[1]]

analyzeComplexity(code) ==
    LET verdict ==
            IF code.lines > 500 THEN <<"high", "Too many lines of code">>
            ELSE IF code.functionCount > 20 THEN <<"high", "Too many functions">>
            ELSE IF code.loopCount > 10 THEN <<"medium", "High number of loops">>
            ELSE IF code.conditionalCount > 15
                THEN <<"medium", "High number of conditionals">>
            ELSE <<"low", "Code complexity is acceptable">>
    IN  [reason |-> verdict[2],
         lines |-> code.lines, functionCount |-> code.functionCount,
         loopCount |-> code.loopCount,
         conditionalCount |-> code.conditionalCount,
         risk |-> verdict[1]]

\* performStaticAnalysis as it would be with the pattern loop before the
\* size test
performStaticAnalysisPatternsFirst(code) ==
    LET p == FirstIn(bannedPatterns,
                     {bannedPatterns[i] : i \in code.patterns}, 1)
        complexityMetrics == analyzeComplexity(code)
    IN  IF p > 0
           THEN [safe |-> FALSE,
                 reason |-> <<"Banned pattern detected", bannedPatterns[p]>>]
        ELSE IF code.length > maxFileSize
           THEN [safe |-> FALSE,
                 reason |-> <<"Code size exceeds maximum allowed",
                              ToString(code.length), ToString(maxFileSize)>>]
        ELSE IF complexityMetrics.risk = "high"
           THEN [safe |-> FALSE,
                 reason |-> <<"Code complexity too high",
                              complexityMetrics.reason>>]
        ELSE [safe |-> TRUE, reason |-> <<>>]

\* performStaticAnalysis as it would be if the pattern loop kept the last
\* match instead of returning at the first
performStaticAnalysisLastPattern(code) ==
    LET p == LastIn(bannedPatterns,
                    {bannedPatterns[i] : i \in code.patterns},
                    Len(bannedPatterns))
        complexityMetrics == analyzeComplexity(code)
    IN  IF code.length > maxFileSize
           THEN [safe |-> FALSE,
                 reason |-> <<"Code size exceeds maximum allowed",
                              ToString(code.length), ToString(maxFileSize)>>]
        ELSE IF p > 0
           THEN [safe |-> FALSE,
                 reason |-> <<"Banned pattern detected", bannedPatterns[p]>>]
        ELSE IF complexityMetrics.risk = "high"
           THEN [safe |-> FALSE,
                 reason |-> <<"Code complexity too high",
                              complexityMetrics.reason>>]
        ELSE [safe |-> TRUE, reason |-> <<>>]

performStaticAnalysis(code) ==
    LET p == FirstIn(bannedPatterns,
                     {bannedPatterns[i] : i \in code.patterns}, 1)
        complexityMetrics == analyzeComplexity(code)
    IN  IF code.length > maxFileSize
           THEN [safe |-> FALSE,
                 reason |-> <<"Code size exceeds maximum allowed",
                              ToString(code.length), ToString(maxFileSize)>>]
        ELSE IF p > 0
           THEN [safe |-> FALSE,
                 reason |-> <<"Banned pattern detected", bannedPatterns[p]>>]
        ELSE IF complexityMetrics.risk = "high"
           THEN [safe |-> FALSE,
                 reason |-> <<"Code complexity too high",
                              complexityMetrics.reason>>]
        ELSE [safe |-> TRUE, reason |-> <<>>]

\* the sandbox's require as it would be if it returned undefined for a
\* module the list lacks
SandboxRequireSilent(module) ==
    [threw |-> <<>>,
     returned |-> IF module \in Range(allowedModules) THEN module
                  ELSE "undefined"]

\* createSandboxEnvironment().require(module): what it throws, or the module
\* it returns
SandboxRequire(module) ==
    IF module \in Range(allowedModules)
       THEN [threw |-> <<>>, returned |-> module]
       ELSE [threw |-> <<"Module is not allowed in sandbox", module>>,
             returned |-> NoValue]

\* vm.run of the wrapped text: what it throws, and whether the text got to
\* arm its timer.  A require() the sandbox refuses throws into the text,
\* which ends there unless the text catches it.
RunInVM(code) ==
    LET refused == {m \in Range(code.requires) :
                       SandboxRequire(m).threw # <<>>}
        r == FirstIn(code.requires, refused, 1)
    IN  IF r > 0 /\ ~code.guarded
           THEN [threw |-> SandboxRequire(code.requires[r]).threw,
                 armed |-> FALSE]
        ELSE IF code.vm.threw # NoValue
           THEN [threw |-> <<code.vm.threw>>, armed |-> code.rearms]
        ELSE [threw |-> <<>>, armed |-> code.rearms]

\* the result of performDynamicTesting; metrics is <<>> where the result has
\* no metrics field
performDynamicTesting(code) ==
    LET run == RunInVM(code)
    IN  IF run.threw # <<>>
           THEN [safe |-> FALSE,
                 reason |-> <<"Dynamic testing failed">> \o run.threw,
                 metrics |-> <<>>]
        ELSE IF code.vm.executionTime > maxExecutionTime
           THEN [safe |-> FALSE,
                 reason |-> <<"Execution time exceeded limit",
                              ToString(code.vm.executionTime),
                              ToString(maxExecutionTime)>>,
                 metrics |-> <<>>]
        ELSE IF code.vm.memoryDelta > maxMemoryUsage
           THEN [safe |-> FALSE,
                 reason |-> <<"Memory usage exceeded limit",
                              ToString(code.vm.memoryDelta),
                              ToString(maxMemoryUsage)>>,
                 metrics |-> <<>>]
        ELSE [safe |-> TRUE, reason |-> <<>>,
              metrics |-> [executionTime |-> code.vm.executionTime,
                           memoryDelta |-> code.vm.memoryDelta]]

\* The sandbox contexts a call of performDynamicTesting leaves alive: the VM
\* is a local of the call and nothing disposes of it, so it lives as long as
\* a host timer holds a callback of the text.
ContextsLeftAlive(code) == IF RunInVM(code).armed THEN 1 ELSE 0

\* testInSandbox as it would be if it returned after the static analysis
testInSandboxStaticOnly(code) ==
    LET staticCheck == performStaticAnalysis(code)
    IN  IF ~staticCheck.safe
           THEN [safe |-> FALSE, reason |-> staticCheck.reason,
                 ran |-> <<"static">>]
           ELSE [safe |-> TRUE, reason |-> <<"Code passed all sandbox tests">>,
                 ran |-> <<"static">>]

\* the result of testInSandbox, with the stages it ran to reach it
testInSandbox(code) ==
    LET staticCheck == performStaticAnalysis(code)
        dynamicCheck == performDynamicTesting(code)
    IN  IF ~staticCheck.safe
           THEN [safe |-> FALSE, reason |-> staticCheck.reason,
                 ran |-> <<"static">>]
        ELSE IF ~dynamicCheck.safe
           THEN [safe |-> FALSE, reason |-> dynamicCheck.reason,
                 ran |-> <<"static", "dynamic">>]
        ELSE [safe |-> TRUE, reason |-> <<"Code passed all sandbox tests">>,
              ran |-> <<"static", "dynamic">>]

\* SafetyManager.quarantineCode: the record it writes under logs/quarantine
quarantineCode(code, reason) == [code |-> code.name, reason |-> reason]

-----------------------------------------------------------------------------
(* Feature files.  A file under ./dynamic is known by the module that      *)
(* require() makes of it, and by where it came from (history).             *)

NoMetadata ==
    [id |-> NoValue, title |-> NoValue, category |-> NoValue,
     complexity |-> NoValue]

\* module.routes: whether the module exports an array of routes, and the array
NoRoutes == [declared |-> FALSE, table |-> <<>>]

NoModule ==
    [parses |-> TRUE, callable |-> "none", execute |-> "none",
     handler |-> "none", health |-> "none", metadata |-> NoMetadata,
     get |-> "none", info |-> "none", routes |-> NoRoutes]

NoPlan == [BasePlan EXCEPT !.id = NoValue, !.keys = {}]
NoCode == [GoodCode EXCEPT !.name = NoValue]

SafeTitle(title) ==
    CASE title = "Weather API" -> "weather-api"
      [] title = "Quote Generator" -> "quote-generator"
      [] title = "Hack the system" -> "hack-the-system"
      [] OTHER -> "hi"

\* plan.x inside a template literal: the value, or the text "undefined"
Field(plan, k, value) == IF k \in plan.keys THEN value ELSE "undefined"

PlanMetadata(plan) ==
    [id |-> Field(plan, "id", plan.id),
     title |-> Field(plan, "title", plan.title),
     category |-> Field(plan, "category", plan.category),
     complexity |-> Field(plan, "complexity", plan.complexity)]

\* the module the text would yield if it declared `var exports;`, which may
\* redeclare a parameter of the loader's function
wrapFeatureCodeVarExports(code, plan) ==
    LET r == code.returns
    IN  [parses |-> TRUE,
         callable |-> "none",
         execute |-> IF r.kind \in {"object", "function"} THEN r.execute
                     ELSE "none",
         handler |-> IF r.kind = "object" THEN r.handler ELSE "none",
         health |-> "healthy",
         metadata |-> PlanMetadata(plan),
         get |-> "none", info |-> "none", routes |-> NoRoutes]

\* The module that the text wrapFeatureCode(code, plan) yields when required.
\* The text declares `let exports;` at its top level, and the CommonJS loader
\* compiles a file as the body of function (exports, require, module, ...):
\* a lexical declaration of a parameter's name is an early SyntaxError, so
\* require() throws before any statement of the file runs.  The other fields
\* are what the statements of the text would have built.
wrapFeatureCode(code, plan) ==
    LET r == code.returns
    IN  [parses |-> FALSE,
         callable |-> "none",
         execute |-> IF r.kind \in {"object", "function"} THEN r.execute
                     ELSE "none",
         handler |-> IF r.kind = "object" THEN r.handler ELSE "none",
         health |-> "healthy",
         metadata |-> PlanMetadata(plan),
         get |-> "none", info |-> "none", routes |-> NoRoutes]

\* the module that the file written by ExecutorAgent.saveCodeToFile yields
saveCodeToFile(code, plan) ==
    LET e == code.exports
    IN  [parses |-> e.kind # "throws",
         callable |-> "none",
         execute |-> e.execute, handler |-> e.handler, health |-> e.health,
         metadata |-> PlanMetadata(plan),
         get |-> "none", info |-> "none", routes |-> NoRoutes]

\* feature-${timestamp}-${safeTitle}.js
FeatureFileName(timestamp, plan) ==
    "feature-" \o ToString(timestamp) \o "-" \o SafeTitle(plan.title) \o ".js"

DiskFile(module) ==
    [module |-> module, via |-> "disk", code |-> NoCode, plan |-> NoPlan]

\* the storage root as the process finds it when it starts
InitialFiles ==
    [name \in {"faulty.js", "data.js", "broken.js", "notes.txt"} |->
        CASE name = "faulty.js" ->
               \* execute(input) fails on some inputs
               DiskFile([NoModule EXCEPT !.execute = "flaky",
                   !.health = "healthy",
                   !.metadata = [id |-> "faulty-1", title |-> "Faulty",
                                 category |-> "utility",
                                 complexity |-> "low"]])
          [] name = "data.js" ->
               \* exports data, and a health probe that reports on its source
               DiskFile([NoModule EXCEPT
                   !.health = "flaky",
                   !.metadata = [id |-> "data-1", title |-> "Data",
                                 category |-> "data", complexity |-> NoValue]])
          [] OTHER ->
               \* not JavaScript
               DiskFile([NoModule EXCEPT !.parses = FALSE])]

\* file.endsWith('.js')
EndsWithJs(name) == name # "notes.txt"

\* filename.replace('.js', '')
BaseName(name) ==
    CASE name = "faulty.js" -> "faulty"
      [] name = "data.js" -> "data"
      [] name = "broken.js" -> "broken"
      [] name = "weather.js" -> "weather"
      [] name = "plain.js" -> "plain"
      [] name = "reader.js" -> "reader"
      [] OTHER -> name

-----------------------------------------------------------------------------
(* FeatureManager.  The operations are functions of the registry            *)
(* R = [features, calls] and of the storage root; the actions below apply   *)
(* them.  Each returns the registry it leaves and what it threw.            *)

Put(f, k, v) == [x \in DOMAIN f \cup {k} |-> IF x = k THEN v ELSE f[x]]
Drop(f, k) == [x \in DOMAIN f \ {k} |-> f[x]]

\* a || b
Or(value, default) == IF value = NoValue THEN default ELSE value

NoCalls == [inflight |-> 0, ok |-> 0, failed |-> 0, peak |-> 0]

\* uuidv4(): an id no feature has had, named by the tick it takes
uuidv4(tick) == "uuid-" \o ToString(tick)

\* title.toLowerCase().replace(/\s+/g, '-')
RouteSlug(title) ==
    CASE title = "Weather API" -> "weather-api"
      [] title = "Quote Generator" -> "quote-generator"
      [] title = "Hack the system" -> "hack-the-system"
      [] title = "Faulty" -> "faulty"
      [] title = "Data" -> "data"
      [] title = "Reader" -> "reader"
      [] title = "undefined" -> "undefined"
      [] OTHER -> "hi"

Route(method, path, handler) ==
    [path |-> path, handler |-> handler, method |-> method]

\* extractRoutes: the module's own array, or a POST route when it has an
\* execute function and a GET route when it has a get function
extractRoutes(module) ==
    IF module.routes.declared THEN module.routes.table
    ELSE LET path == "/api/" \o (IF module.metadata.title = NoValue
                                    THEN "feature"
                                    ELSE RouteSlug(module.metadata.title))
         IN  (IF module.execute # "none"
                 THEN <<Route("POST", path, "execute")>> ELSE <<>>)
             \o (IF module.get # "none"
                    THEN <<Route("GET", path, "get")>> ELSE <<>>)

\* the feature wrapper loadFeature builds
NewFeature(filename, module, tick) ==
    [id |-> Or(module.metadata.id, uuidv4(tick)),
     name |-> Or(module.metadata.title, BaseName(filename)),
     category |-> Or(module.metadata.category, "utility"),
     complexity |-> Or(module.metadata.complexity, "medium"),
     filename |-> filename,
     module |-> module,
     lastUsed |-> 0,
     usageCount |-> 0,
     active |-> TRUE,
     routes |-> extractRoutes(module)]

\* (the calls still awaiting a callee of the wrapper this one replaces settle
\* on that wrapper, which the Map no longer holds)
loadFeature(R, filename, file) ==
    IF ~file.module.parses
       THEN [R EXCEPT !.thrown = "Failed to load", !.id = NoValue]
    ELSE LET drawn == file.module.metadata.id = NoValue
             tick == IF drawn THEN R.tick + 1 ELSE R.tick
             feature == NewFeature(filename, file.module, tick)
         IN  [features |-> Put(R.features, feature.id, feature),
              calls |-> Put(R.calls, feature.id, NoCalls),
              thrown |-> NoValue,
              id |-> feature.id,
              tick |-> tick]

\* the loop as it would be without the try/catch around each loadFeature:
\* the first file that fails to load ends the scan
RECURSIVE loadAllFeaturesAborting(_, _, _)
loadAllFeaturesAborting(R, F, names) ==
    IF names = <<>> THEN [R EXCEPT !.thrown = NoValue, !.id = NoValue]
    ELSE LET file == Head(names)
             next == IF EndsWithJs(file) THEN loadFeature(R, file, F[file])
                     ELSE R
         IN  IF next.thrown # NoValue THEN next
             ELSE loadAllFeaturesAborting(next, F, Tail(names))

\* the loop of loadAllFeatures over the names readdir returned
RECURSIVE loadAllFeatures(_, _, _)
loadAllFeatures(R, F, names) ==
    IF names = <<>> THEN [R EXCEPT !.thrown = NoValue, !.id = NoValue]
    ELSE LET file == Head(names)
             next == IF EndsWithJs(file) THEN loadFeature(R, file, F[file])
                     ELSE R
         IN  loadAllFeatures(next, F, Tail(names))

\* what module.health() may report to the self-test
HealthOutcomes(module) ==
    CASE module.health = "none" -> {"absent"}
      [] module.health = "flaky" -> {"healthy", "unhealthy", "threw"}
      [] OTHER -> {module.health}

\* what the bounded-time module.execute({test: true}) may meet
SelfTestOutcomes(module) ==
    CASE module.execute = "none" -> {"absent"}
      [] module.execute = "ok" -> {"passed"}
      [] module.execute = "throws" -> {"threw"}
      [] module.execute = "hangs" -> {"Test timeout"}
      [] OTHER -> {"passed", "threw", "Test timeout"}

SelfTestRuns(module) ==
    [health : HealthOutcomes(module), execute : SelfTestOutcomes(module)]

\* testFeature as it would be if its catch block only threw on
testFeatureKeepsActive(feature, run) ==
    [active |-> feature.active,
     thrown |-> IF run.health \notin {"absent", "healthy"}
                   THEN "Health check failed" ELSE NoValue,
     warning |-> NoValue]

\* FeatureManager.testFeature on a run of the module's probes: the flag it
\* leaves, what it throws and what it only warns of
testFeature(feature, run) ==
    IF run.health \notin {"absent", "healthy"}
       THEN [active |-> FALSE, thrown |-> "Health check failed",
             warning |-> NoValue]
       ELSE [active |-> feature.active, thrown |-> NoValue,
             warning |-> IF run.execute \in {"threw", "Test timeout"}
                            THEN run.execute ELSE NoValue]

integrateFeature(R, F, code, plan, run) ==
    IF "title" \notin plan.keys
       THEN [features |-> R.features, calls |-> R.calls, files |-> F,
             thrown |-> "Cannot read properties of undefined", id |-> NoValue,
             tick |-> R.tick + 1]
    ELSE
    LET timestamp == R.tick + 1
        filename == FeatureFileName(timestamp, plan)
        file == [module |-> wrapFeatureCode(code, plan), via |-> "integrate",
                 code |-> code, plan |-> plan]
        F2 == Put(F, filename, file)
        L == loadFeature([R EXCEPT !.tick = timestamp], filename, file)
    IN  IF L.thrown # NoValue
           THEN [features |-> L.features, calls |-> L.calls, files |-> F2,
                 thrown |-> L.thrown, id |-> NoValue, tick |-> L.tick]
        ELSE LET T == testFeature(L.features[L.id], run)
             IN  [features |-> [L.features EXCEPT ![L.id].active = T.active],
                  calls |-> L.calls, files |-> F2,
                  thrown |-> T.thrown, id |-> L.id, tick |-> L.tick]

\* the callee executeFeature dispatches to: its behaviour, "none" if the
\* module has no recognised entry point
EntryPoint(module) ==
    IF module.execute # "none" THEN module.execute
    ELSE IF module.callable # "none" THEN module.callable
    ELSE IF module.handler # "none" THEN module.handler
    ELSE "none"

\* the guards as they would be without the test of the active flag
ExecuteRefusalNoActiveCheck(fs, id) ==
    IF id \notin DOMAIN fs THEN "Feature not found" ELSE NoValue

\* the guards as they would be if one test, !feature?.active, stood for both
ExecuteRefusalActiveOnly(fs, id) ==
    IF id \notin DOMAIN fs \/ ~fs[id].active THEN "Feature is inactive"
    ELSE NoValue

\* the lookup and the two guards that open executeFeature
ExecuteRefusal(fs, id) ==
    IF id \notin DOMAIN fs THEN "Feature not found"
    ELSE IF ~fs[id].active THEN "Feature is inactive"
    ELSE NoValue

\* the tracking as it would be with
\* feature.usageCount = feature.usageCount++, which leaves the count as it was
TrackUsagePostIncrement(feature, now) == [feature EXCEPT !.lastUsed = now]

\* feature.lastUsed = new Date(); feature.usageCount++
TrackUsage(feature, now) ==
    [feature EXCEPT !.lastUsed = now, !.usageCount = @ + 1]

\* deactivateFeature as it would be with feature.active = !feature.active
deactivateFeatureToggle(fs, id) ==
    IF id \in DOMAIN fs THEN [fs EXCEPT ![id].active = ~@] ELSE fs

deactivateFeature(fs, id) ==
    IF id \in DOMAIN fs THEN [fs EXCEPT ![id].active = FALSE] ELSE fs

\* deleteFeature as it would be if it dropped the entry before the unlink
deleteFeatureEntryFirst(R, F, id, unlinked) ==
    IF id \notin DOMAIN R.features
       THEN [features |-> R.features, calls |-> R.calls, files |-> F,
             thrown |-> NoValue]
    ELSE [features |-> Drop(R.features, id), calls |-> Drop(R.calls, id),
          files |-> IF unlinked THEN Drop(F, R.features[id].filename) ELSE F,
          thrown |-> IF unlinked THEN NoValue ELSE "unlink failed"]

\* unlinked: did fs.unlink(feature.filePath) succeed?
deleteFeature(R, F, id, unlinked) ==
    IF id \notin DOMAIN R.features
       THEN [features |-> R.features, calls |-> R.calls, files |-> F,
             thrown |-> NoValue]
    ELSE IF ~unlinked
       THEN [features |-> R.features, calls |-> R.calls, files |-> F,
             thrown |-> "unlink failed"]
    ELSE [features |-> Drop(R.features, id), calls |-> Drop(R.calls, id),
          files |-> Drop(F, R.features[id].filename), thrown |-> NoValue]

-----------------------------------------------------------------------------
(* The initial state: the process has constructed its managers.            *)

EmptyMap == [x \in {} |-> NoValue]

\* no report from validatePlan, no result from testInSandbox, yet
NoReport == [approved |-> FALSE, reason |-> <<>>, severity |-> NoValue]
NoResult == [safe |-> FALSE, reason |-> <<>>, ran |-> <<>>]

\* trace: the checks that ran on the candidate, in order; rejectedBy: the
\* stage whose verdict stopped it (history)
IdleEvo ==
    [pc |-> "idle", kind |-> NoValue, plan |-> NoPlan, code |-> NoCode,
     trace |-> <<>>, rejectedBy |-> NoValue, error |-> <<>>,
     feature |-> NoValue, safetyCheck |-> NoReport,
     sandboxResult |-> NoResult]

\* no check called yet, no sandbox context alive
NoProbe == [op |-> NoValue, input |-> NoValue, out |-> NoResult, live |-> 0]

\* no route mounted, no request served
NoResponse == [path |-> NoValue, id |-> NoValue, handler |-> NoValue,
               method |-> NoValue, status |-> 0, invoked |-> NoValue]

\* routes: the dynamic routes in the order they were mounted; order: the
\* keys of the features Map in the order they were first set, which is the
\* order the Map lists its values in (history)
NoApp == [routes |-> <<>>, mounted |-> FALSE, started |-> FALSE,
          order |-> <<>>, response |-> NoResponse]

Op(op, id, outcome, detail) ==
    [op |-> op, id |-> id, outcome |-> outcome, detail |-> detail]

Init ==
    /\ files = InitialFiles
    /\ features = EmptyMap
    /\ calls = EmptyMap
    /\ clock = 0
    /\ lastOp = Op("constructor", NoValue, "returned", <<>>)
    /\ evo = IdleEvo
    /\ quarantine = {}
    /\ hostLoaded = {}
    /\ runs = 0
    /\ probe = NoProbe
    /\ app = NoApp

Registry == [features |-> features, calls |-> calls, thrown |-> NoValue,
             id |-> NoValue, tick |-> clock]

-----------------------------------------------------------------------------
(* The registry's operations.                                              *)

RECURSIVE SeqOf(_)
SeqOf(S) ==
    IF S = {} THEN <<>>
    ELSE LET x == CHOOSE y \in S : TRUE IN <<x>> \o SeqOf(S \ {x})

Loadable(F) == {f \in DOMAIN F : EndsWithJs(f) /\ F[f].module.parses}
FilesOfId(F, id) == {f \in Loadable(F) : F[f].module.metadata.id = id}
SharedIds(F) ==
    {id \in {F[f].module.metadata.id : f \in Loadable(F)} \ {NoValue} :
        Cardinality(FilesOfId(F, id)) > 1}

\* The orders in which readdir may list the directory: any file may come
\* first, and the files that share a feature id may come last in any way
\* (the order of the rest does not show in the registry).
ReaddirOrders(F) ==
    UNION {LET rest == DOMAIN F \ Range(last)
           IN  IF rest = {} THEN {SeqOf(Range(last))}
               ELSE {<<first>> \o SeqOf(rest \ {first}) \o SeqOf(Range(last)) :
                        first \in rest} :
        last \in {w \in [SharedIds(F) -> DOMAIN F] :
                     \A id \in SharedIds(F) : w[id] \in FilesOfId(F, id)}}

LoadAllFeatures ==
    /\ \E names \in ReaddirOrders(files) :
          LET R == loadAllFeatures(Registry, files, names)
          IN  /\ R.tick <= MaxClock
              /\ features' = R.features
              /\ calls' = R.calls
              /\ clock' = R.tick
              /\ lastOp' = Op("loadAllFeatures", NoValue, "returned",
                              SeqOf(DOMAIN R.features))
    /\ hostLoaded' = hostLoaded \cup {files[f].code.name : f \in Loadable(files)}
    /\ UNCHANGED <<files, runs, pipelineVars, serviceVars>>

UnknownId == "non-existent-id"

\* the ids a caller may name: those registered, those the files on disk were
\* once registered under, and one that never was
CallerIds ==
    (DOMAIN features
        \cup {InitialFiles[f].module.metadata.id : f \in DOMAIN InitialFiles}
        \cup {UnknownId}) \ {NoValue}

\* the error as it would be if the catch block left error.message out
ExecuteErrorBare(inner) == <<"Feature execution failed">>

ExecuteError(inner) == <<"Feature execution failed", inner>>

\* executeFeature up to its await: the lookup, the guards, the usage
\* tracking and the dispatch
ExecuteStart(id) ==
    LET refusal == ExecuteRefusal(features, id)
    IN  IF refusal # NoValue
           THEN /\ lastOp' = Op("executeFeature", id, "threw", <<refusal>>)
                /\ UNCHANGED <<registryVars, runs, pipelineVars, serviceVars>>
        ELSE /\ clock < MaxClock
             /\ clock' = clock + 1
             /\ features' = [features EXCEPT ![id] = TrackUsage(@, clock')]
             /\ IF EntryPoint(features[id].module) = "none"
                   THEN /\ calls' = [calls EXCEPT ![id].failed = @ + 1]
                        /\ lastOp' = Op("executeFeature", id, "threw",
                               ExecuteError("No executable method found in feature"))
                   ELSE /\ calls' = [calls EXCEPT
                               ![id].inflight = @ + 1,
                               ![id].peak = IF calls[id].inflight + 1 > @
                                               THEN calls[id].inflight + 1
                                               ELSE @]
                        /\ lastOp' = Op("executeFeature", id, "awaiting", <<>>)
             /\ UNCHANGED <<files, hostLoaded, runs, pipelineVars, serviceVars>>

\* the callee settles and executeFeature returns or throws
ExecuteFinish(id) ==
    /\ id \in DOMAIN calls
    /\ calls[id].inflight > 0
    /\ LET callee == EntryPoint(features[id].module)
       IN  \/ /\ callee \in {"ok", "flaky"}
              /\ calls' = [calls EXCEPT ![id].inflight = @ - 1,
                                        ![id].ok = @ + 1]
              /\ lastOp' = Op("executeFeature", id, "returned",
                              <<ToString(features[id].usageCount)>>)
           \/ /\ callee \in {"throws", "flaky"}
              /\ calls' = [calls EXCEPT ![id].inflight = @ - 1,
                                        ![id].failed = @ + 1]
              /\ lastOp' = Op("executeFeature", id, "threw",
                              ExecuteError("callee error"))
    /\ UNCHANGED <<files, features, clock, hostLoaded, runs, pipelineVars, serviceVars>>

DeactivateFeature(id) ==
    /\ features' = deactivateFeature(features, id)
    /\ lastOp' = Op("deactivateFeature", id, "returned",
                    <<IF id \notin DOMAIN features THEN "unknown"
                      ELSE IF features[id].active THEN "active"
                      ELSE "inactive">>)
    /\ UNCHANGED <<files, calls, clock, hostLoaded, runs, pipelineVars, serviceVars>>

\* testFeature called on a registered feature
TestFeature(id) ==
    /\ id \in DOMAIN features
    /\ \E run \in SelfTestRuns(features[id].module) :
          LET T == testFeature(features[id], run)
          IN  /\ features' = [features EXCEPT ![id].active = T.active]
              /\ lastOp' = Op("testFeature", id,
                     IF T.thrown = NoValue THEN "returned" ELSE "threw",
                     <<run.health, run.execute,
                       IF features[id].active THEN "active" ELSE "inactive">>)
    /\ UNCHANGED <<files, calls, clock, hostLoaded, runs, pipelineVars, serviceVars>>

DeleteFeature(id) ==
    \E unlinked \in BOOLEAN :
        /\ unlinked => id \in DOMAIN features
                       /\ features[id].filename \in DOMAIN files
        /\ LET D == deleteFeature(Registry, files, id, unlinked)
           IN  /\ features' = D.features
               /\ calls' = D.calls
               /\ files' = D.files
               /\ lastOp' = Op("deleteFeature", id,
                               IF D.thrown = NoValue THEN "returned" ELSE "threw",
                               IF id \in DOMAIN features
                                  THEN <<features[id].filename>> ELSE <<>>)
        /\ UNCHANGED <<clock, hostLoaded, runs, pipelineVars, serviceVars>>

Next ==
    \/ LoadAllFeatures
    \/ \E id \in CallerIds : ExecuteStart(id)
    \/ \E id \in CallerIds : ExecuteFinish(id)
    \/ \E id \in CallerIds : TestFeature(id)
    \/ \E id \in CallerIds : DeactivateFeature(id)
    \/ \E id \in CallerIds : DeleteFeature(id)

Spec == Init /\ [][Next]_vars

-----------------------------------------------------------------------------
(* Autonomo.evolve, one step for each call it awaits.                      *)

Finished == {"idle", "done", "failed"}

\* the error as it would be if the message left the reason out
PlanErrorGeneric(safetyCheck) == <<"Safety validation failed">>

PlanError(safetyCheck) == <<"Safety validation failed">> \o safetyCheck.reason
SandboxError(sandboxResult) ==
    <<"Code failed sandbox test">> \o sandboxResult.reason

\* throw: control passes to evolve's catch block
Throw(e, stage, error) ==
    [e EXCEPT !.pc = "catch", !.rejectedBy = stage, !.error = error]

\* Step 1: the planner's plan arrives
EvolveStart ==
    /\ evo.pc \in Finished
    /\ runs < MaxRuns
    /\ runs' = runs + 1
    /\ \E plan \in PlanSamples :
          evo' = [IdleEvo EXCEPT !.pc = "validate", !.kind = "evolve",
                                 !.plan = plan]
    /\ UNCHANGED <<registryVars, lastOp, quarantine, serviceVars>>

\* Step 2: safety validation of the plan
EvolveValidatePlan ==
    /\ evo.pc = "validate"
    /\ LET safetyCheck == validatePlan(evo.plan)
           e == [evo EXCEPT !.trace = Append(@, "plan"),
                            !.safetyCheck = safetyCheck]
       IN  evo' = IF ~safetyCheck.approved
                     THEN Throw(e, "plan", PlanError(safetyCheck))
                     ELSE [e EXCEPT !.pc = "generate"]
    /\ UNCHANGED <<registryVars, lastOp, quarantine, runs, serviceVars>>

\* Step 3: the coder's text arrives, or the coder fails
EvolveGenerateCode ==
    /\ evo.pc = "generate"
    /\ \/ \E code \in CodeSamples :
             evo' = [evo EXCEPT !.pc = "sandbox", !.code = code]
       \/ evo' = Throw(evo, NoValue, <<"Code generation failed">>)
    /\ UNCHANGED <<registryVars, lastOp, quarantine, runs, serviceVars>>

\* Step 4: static analysis, then the sandbox run
EvolveSandbox ==
    /\ evo.pc = "sandbox"
    /\ LET sandboxResult == testInSandbox(evo.code)
           e == [evo EXCEPT !.trace = @ \o sandboxResult.ran,
                            !.sandboxResult = sandboxResult]
       IN  evo' = IF ~sandboxResult.safe
                     THEN Throw(e, sandboxResult.ran[Len(sandboxResult.ran)],
                                SandboxError(sandboxResult))
                     ELSE [e EXCEPT !.pc = "integrate"]
    /\ UNCHANGED <<registryVars, lastOp, quarantine, runs, serviceVars>>

\* Steps 5 to 7: the Feature Registry integrates the candidate; once it has,
\* the evolution is recorded, the reflector reflects on it (or fails) and
\* evolve returns
EvolveIntegrate ==
    /\ evo.pc = "integrate"
    /\ \E run \in SelfTestRuns(wrapFeatureCode(evo.code, evo.plan)),
          reflected \in BOOLEAN :
          LET I == integrateFeature(Registry, files, evo.code, evo.plan, run)
              e == [evo EXCEPT !.trace = Append(@, "integrate"),
                               !.feature = I.id]
              written == {I.files[n] : n \in DOMAIN I.files \ DOMAIN files}
          IN  /\ I.tick <= MaxClock
              /\ features' = I.features
              /\ calls' = I.calls
              /\ files' = I.files
              /\ clock' = I.tick
              /\ hostLoaded' = hostLoaded \cup
                     {f.code.name : f \in {w \in written : w.module.parses}}
              /\ lastOp' = Op("integrateFeature", I.id,
                     IF I.thrown = NoValue THEN "returned" ELSE "threw",
                     <<Or(I.thrown, "")>>)
              /\ evo' = IF I.thrown # NoValue
                           THEN Throw(e, NoValue, <<I.thrown>>)
                        ELSE IF ~reflected
                           THEN Throw(e, NoValue, <<"Reflection failed">>)
                        ELSE [e EXCEPT !.pc = "done"]
    /\ UNCHANGED <<quarantine, runs, serviceVars>>

\* the catch block: the failure is recorded and the error thrown on
EvolveCatch ==
    /\ evo.pc = "catch"
    /\ evo' = [evo EXCEPT !.pc = "failed"]
    /\ lastOp' = Op("evolve", evo.feature, "threw", evo.error)
    /\ UNCHANGED <<registryVars, quarantine, runs, serviceVars>>

-----------------------------------------------------------------------------
(* AgentOrchestrator.collaborate(task, ['planner', 'coder', 'executor']).   *)

\* ExecutorAgent.validateInSandbox
validateInSandbox(code) ==
    IF code.raw.threw # NoValue
       THEN [valid |-> FALSE, error |-> code.raw.threw]
       ELSE [valid |-> TRUE, error |-> NoValue]

\* ExecutorAgent.executeCode: the storage root it leaves, the text it loaded
\* into the host (if it got that far) and what it threw
executeCode(F, code, plan, tick) ==
    LET sandboxResult == validateInSandbox(code)
        filePath == FeatureFileName(tick + 1, plan)
        file == [module |-> saveCodeToFile(code, plan), via |-> "executor",
                 code |-> code, plan |-> plan]
    IN  IF ~sandboxResult.valid
           THEN [files |-> F, loaded |-> {}, tick |-> tick,
                 thrown |-> <<"Code validation failed", sandboxResult.error>>]
        ELSE IF "title" \notin plan.keys
           THEN [files |-> F, loaded |-> {}, tick |-> tick + 1,
                 thrown |-> <<"Cannot read properties of undefined">>]
        ELSE [files |-> Put(F, filePath, file), loaded |-> {code.name},
              tick |-> tick + 1,
              thrown |-> IF file.module.parses THEN <<>>
                         ELSE <<"Failed to load module">>]

\* the planner's and the coder's turns: a plan and a text for it
CollaborateStart ==
    /\ evo.pc \in Finished
    /\ runs < MaxRuns
    /\ runs' = runs + 1
    /\ \E plan \in PlanSamples, code \in CodeSamples :
          evo' = [IdleEvo EXCEPT !.pc = "execute", !.kind = "collaborate",
                                 !.plan = plan, !.code = code]
    /\ UNCHANGED <<registryVars, lastOp, quarantine, serviceVars>>

\* the executor's turn
CollaborateExecute ==
    /\ evo.pc = "execute"
    /\ LET X == executeCode(files, evo.code, evo.plan, clock)
       IN  /\ X.tick <= MaxClock
           /\ files' = X.files
           /\ clock' = X.tick
           /\ hostLoaded' = hostLoaded \cup X.loaded
           /\ evo' = [evo EXCEPT
                         !.pc = IF X.thrown = <<>> THEN "done" ELSE "failed",
                         !.trace = Append(@, "executor sandbox"),
                         !.error = X.thrown]
           /\ lastOp' = Op("collaborate", NoValue,
                           IF X.thrown = <<>> THEN "returned" ELSE "threw",
                           X.thrown)
    /\ UNCHANGED <<features, calls, quarantine, runs, serviceVars>>

PipelineNext ==
    \/ EvolveStart
    \/ EvolveValidatePlan
    \/ EvolveGenerateCode
    \/ EvolveSandbox
    \/ EvolveIntegrate
    \/ EvolveCatch
    \/ CollaborateStart
    \/ CollaborateExecute
    \/ LoadAllFeatures

PipelineSpec == Init /\ [][PipelineNext]_vars

-----------------------------------------------------------------------------
(* SafetyManager's checks of a code text, called one by one.               *)

ProbeCodes == CodeSamples \cup ThresholdCodes \cup SandboxCodes

Probe(op, input, out, left) ==
    /\ probe.live + left <= MaxContexts
    /\ probe' = [op |-> op, input |-> input, out |-> out,
                 live |-> probe.live + left]
    /\ UNCHANGED <<registryVars, lastOp, pipelineVars, runs, app>>

AnalyzeComplexity ==
    \E code \in ProbeCodes :
        Probe("analyzeComplexity", code, analyzeComplexity(code), 0)

PerformStaticAnalysis ==
    \E code \in ProbeCodes :
        Probe("performStaticAnalysis", code, performStaticAnalysis(code), 0)

PerformDynamicTesting ==
    \E code \in ProbeCodes :
        Probe("performDynamicTesting", code, performDynamicTesting(code),
              ContextsLeftAlive(code))

TestInSandbox ==
    \E code \in ProbeCodes :
        LET result == testInSandbox(code)
        IN  Probe("testInSandbox", code, result,
                  IF "dynamic" \in Range(result.ran)
                     THEN ContextsLeftAlive(code) ELSE 0)

\* a text inside the sandbox calls require(module)
RequireInSandbox ==
    \E module \in ModuleNames :
        Probe("require", module, SandboxRequire(module), 0)

SafetyNext ==
    \/ AnalyzeComplexity
    \/ PerformStaticAnalysis
    \/ PerformDynamicTesting
    \/ TestInSandbox
    \/ RequireInSandbox

SafetySpec == Init /\ [][SafetyNext]_vars

-----------------------------------------------------------------------------
(* The process as it starts and serves.  The constructor sets             *)
(* mountDynamicRoutes going and start() loads the features again; each     *)
(* awaits loadAllFeatures, so either may finish first.                     *)

\* The storage root of a process that serves three features: the example
\* weather service with its own route table; a module that exports execute
\* and no metadata; a module that exports get.
ServerFiles ==
    [name \in {"weather.js", "plain.js", "reader.js"} |->
        CASE name = "weather.js" ->
               DiskFile([NoModule EXCEPT
                   !.execute = "ok", !.health = "healthy", !.info = "ok",
                   !.metadata = [NoMetadata EXCEPT
                                    !.id = "example-weather-001",
                                    !.category = "api"],
                   !.routes =
                       [declared |-> TRUE,
                        table |-> <<Route("GET", "/api/weather", "execute"),
                                    Route("POST", "/api/weather", "execute"),
                                    Route("GET", "/api/weather/health", "health"),
                                    Route("GET", "/api/weather/info", "info")>>]])
          [] name = "plain.js" ->
               DiskFile([NoModule EXCEPT !.execute = "ok"])
          [] OTHER ->
               DiskFile([NoModule EXCEPT
                   !.get = "ok",
                   !.metadata = [NoMetadata EXCEPT !.id = "reader-1",
                                                   !.title = "Reader"]])]

ServerInit ==
    /\ files = ServerFiles
    /\ features = EmptyMap
    /\ calls = EmptyMap
    /\ clock = 0
    /\ lastOp = Op("constructor", NoValue, "returned", <<>>)
    /\ evo = IdleEvo
    /\ quarantine = {}
    /\ hostLoaded = {}
    /\ runs = 0
    /\ probe = NoProbe
    /\ app = NoApp

\* the keys of the features Map, in the order of their first set, after the
\* loop of loadAllFeatures over the names readdir returned
RECURSIVE MapOrder(_, _, _, _)
MapOrder(R, F, names, order) ==
    IF names = <<>> THEN order
    ELSE LET file == Head(names)
             next == IF EndsWithJs(file) THEN loadFeature(R, file, F[file])
                     ELSE R
             set == /\ EndsWithJs(file)
                    /\ next.thrown = NoValue
                    /\ next.id \notin Range(order)
         IN  MapOrder(next, F, Tail(names),
                      IF set THEN Append(order, next.id) ELSE order)

Mounted(route, id) ==
    [path |-> route.path, id |-> id, handler |-> route.handler,
     method |-> route.method]

\* features.forEach(feature => feature.routes.forEach(route => app[method](
\* route.path, ...))): the handlers in the order they are mounted
RECURSIVE mountDynamicRoutes(_, _)
mountDynamicRoutes(fs, order) ==
    IF order = <<>> THEN <<>>
    ELSE LET feature == fs[Head(order)]
         IN  [i \in DOMAIN feature.routes |->
                 Mounted(feature.routes[i], feature.id)]
             \o mountDynamicRoutes(fs, Tail(order))

\* loadAllFeatures as the process calls it
Load(step, mounts) ==
    /\ \E names \in ReaddirOrders(files) :
          LET R == loadAllFeatures(Registry, files, names)
              order == MapOrder(Registry, files, names, app.order)
          IN  /\ R.tick <= MaxClock
              /\ features' = R.features
              /\ calls' = R.calls
              /\ clock' = R.tick
              /\ app' = IF mounts
                           THEN [app EXCEPT
                                    !.mounted = TRUE, !.order = order,
                                    !.routes =
                                        mountDynamicRoutes(R.features, order)]
                           ELSE [app EXCEPT !.started = TRUE,
                                            !.order = order]
              /\ lastOp' = Op(step, NoValue, "returned",
                              SeqOf(DOMAIN R.features))
    /\ hostLoaded' = hostLoaded \cup {files[f].code.name : f \in Loadable(files)}
    /\ UNCHANGED <<files, runs, pipelineVars, probe>>

MountDynamicRoutes == ~app.mounted /\ Load("mountDynamicRoutes", TRUE)

\* start(): the features are loaded and the app listens
Start == ~app.started /\ Load("start", FALSE)

\* the requests that arrive
RequestSamples ==
    {<<"GET", "/api/weather">>, <<"POST", "/api/weather">>,
     <<"GET", "/api/weather/health">>, <<"GET", "/api/weather/info">>,
     <<"POST", "/api/feature">>, <<"GET", "/api/reader">>,
     <<"GET", "/api/unknown">>}

\* the function of the module that executeFeature calls
Dispatched(module) ==
    IF module.execute # "none" THEN "execute"
    ELSE IF module.callable # "none" THEN "module"
    ELSE IF module.handler # "none" THEN "handler"
    ELSE "none"

\* how a callee of that behaviour may settle
CalleeOutcomes(behaviour) ==
    CASE behaviour = "ok" -> {"returned"}
      [] behaviour = "flaky" -> {"returned", "threw"}
      [] behaviour = "hangs" -> {}
      [] OTHER -> {"threw"}

Respond(status, route, invoked) ==
    [path |-> route.path, id |-> route.id, handler |-> route.handler,
     method |-> route.method, status |-> status, invoked |-> invoked]

\* A request arrives.  The first handler mounted for its method and path
\* takes it and answers with what executeFeature returns, or with status 500
\* and what it throws; with no handler the answer is Express's 404.
Request(method, path) ==
    /\ app.started
    /\ LET hits == {i \in DOMAIN app.routes :
                       /\ app.routes[i].method = method
                       /\ app.routes[i].path = path}
           route == app.routes[CHOOSE i \in hits : \A j \in hits : i <= j]
           refusal == ExecuteRefusal(features, route.id)
           module == features[route.id].module
       IN  IF hits = {}
              THEN /\ app' = [app EXCEPT !.response =
                                 [NoResponse EXCEPT !.status = 404,
                                                    !.method = method,
                                                    !.path = path]]
                   /\ lastOp' = Op("request", NoValue, "returned",
                                   <<method, path, "404">>)
                   /\ UNCHANGED <<features, calls, clock>>
           ELSE IF refusal # NoValue
              THEN /\ app' = [app EXCEPT !.response =
                                 Respond(500, route, NoValue)]
                   /\ lastOp' = Op("request", route.id, "returned",
                                   <<method, path, "500", refusal>>)
                   /\ UNCHANGED <<features, calls, clock>>
           ELSE /\ clock < MaxClock
                /\ clock' = clock + 1
                /\ features' = [features EXCEPT
                                   ![route.id] = TrackUsage(@, clock')]
                /\ \E outcome \in CalleeOutcomes(EntryPoint(module)) :
                      /\ calls' = IF outcome = "returned"
                                     THEN [calls EXCEPT ![route.id].ok = @ + 1]
                                     ELSE [calls EXCEPT
                                              ![route.id].failed = @ + 1]
                      /\ app' = [app EXCEPT !.response =
                                    Respond(IF outcome = "returned" THEN 200
                                            ELSE 500,
                                            route, Dispatched(module))]
                      /\ lastOp' = Op("request", route.id, "returned",
                                      <<method, path,
                                        IF outcome = "returned" THEN "200"
                                        ELSE "500">>)
    /\ UNCHANGED <<files, hostLoaded, runs, pipelineVars, probe>>

ServerNext ==
    \/ MountDynamicRoutes
    \/ Start
    \/ \E request \in RequestSamples : Request(request[1], request[2])
    \/ \E id \in DOMAIN features : DeactivateFeature(id)

ServerSpec == ServerInit /\ [][ServerNext]_vars

-----------------------------------------------------------------------------
(* The validation pipeline (PipelineSpec).                                 *)

Last(s) == s[Len(s)]

PassedAllStages(plan, code) ==
    /\ validatePlan(plan).approved
    /\ performStaticAnalysis(code).safe
    /\ performDynamicTesting(code).safe

\* what the stage that stopped the candidate reported
StageReason(e) ==
    CASE e.rejectedBy = "plan" -> validatePlan(e.plan).reason
      [] e.rejectedBy = "static" -> performStaticAnalysis(e.code).reason
      [] e.rejectedBy = "dynamic" -> performDynamicTesting(e.code).reason

StagePrefix(e) ==
    IF e.rejectedBy = "plan" THEN "Safety validation failed"
    ELSE "Code failed sandbox test"

\* C1: evolve() calls integrateFeature on a candidate only after plan
\* validation, static analysis and the sandbox run have run on it, in this
\* order, and each approved it; every file integrateFeature wrote is of such a
\* candidate.
C1_IntegratedOnlyAfterAllStages ==
    /\ (evo.kind = "evolve" /\ "integrate" \in Range(evo.trace)) =>
          /\ evo.trace = <<"plan", "static", "dynamic", "integrate">>
          /\ PassedAllStages(evo.plan, evo.code)
    /\ \A f \in DOMAIN files :
          files[f].via = "integrate" =>
              PassedAllStages(files[f].plan, files[f].code)

\* a candidate that evolve() handed to the Feature Registry
C1_Witness ==
    /\ evo.kind = "evolve"
    /\ evo.trace = <<"plan", "static", "dynamic", "integrate">>
    /\ \E f \in DOMAIN files : /\ files[f].via = "integrate"
                               /\ files[f].code = evo.code
                               /\ files[f].plan = evo.plan

\* C2: every file written under the storage root by the program, every
\* feature registered from such a file and every code text loaded into the
\* host is of a candidate that passed plan validation, static analysis and
\* the sandbox run, whichever path wrote it.
C2_OnlyValidatedCandidates ==
    /\ \A f \in DOMAIN files :
          files[f].via # "disk" =>
              PassedAllStages(files[f].plan, files[f].code)
    /\ \A id \in DOMAIN features :
          LET f == features[id].filename
          IN  (f \in DOMAIN files /\ files[f].via # "disk") =>
                  PassedAllStages(files[f].plan, files[f].code)
    /\ \A code \in CodeSamples :
          code.name \in hostLoaded =>
              performStaticAnalysis(code).safe /\ performDynamicTesting(code).safe

\* C3: once a stage has rejected the candidate, no later stage has run on it,
\* no feature is integrated for it, and the error evolve() throws (evo.error)
\* is the stage's reason, word for word, behind the stage's prefix.
C3_RejectionShortCircuits ==
    evo.rejectedBy # NoValue =>
        /\ evo.pc \in {"catch", "failed"}
        /\ Last(evo.trace) = evo.rejectedBy
        /\ "integrate" \notin Range(evo.trace)
        /\ evo.feature = NoValue
        /\ evo.error = <<StagePrefix(evo)>> \o StageReason(evo)
        /\ \A f \in DOMAIN files :
              files[f].via = "integrate" =>
                  files[f].code # evo.code \/ files[f].plan # evo.plan

\* evolve() has thrown the plan stage's reason for a rejected plan
C3_Witness ==
    /\ evo.pc = "failed"
    /\ evo.rejectedBy = "plan"
    /\ Len(evo.error) > 1
    /\ lastOp.op = "evolve" /\ lastOp.outcome = "threw"

\* C4: when evolve() has ended with a candidate rejected by a stage, the
\* Quarantine Store holds a record with the rejection reason.
C4_RejectionsAreQuarantined ==
    (evo.pc = "failed" /\ evo.rejectedBy # NoValue) =>
        \E q \in quarantine : q.reason = StageReason(evo)

-----------------------------------------------------------------------------
(* The Feature Registry (Spec).                                            *)

\* C5: executeFeature on a feature whose active flag is false throws the
\* Inactive error, starts no call of the callee and leaves the feature's
\* usageCount and lastUsed (the whole registry) as they were.
C5_InactiveFeatureRefused ==
    [][\A id \in DOMAIN features :
          (~features[id].active /\ ExecuteStart(id)) =>
              /\ lastOp' = Op("executeFeature", id, "threw",
                              <<"Feature is inactive">>)
              /\ features' = features
              /\ calls' = calls]_vars

\* a used feature, since deactivated, has refused a call
C5_Witness ==
    /\ lastOp.op = "executeFeature"
    /\ lastOp.detail = <<"Feature is inactive">>
    /\ lastOp.id \in DOMAIN features
    /\ features[lastOp.id].usageCount > 0
    /\ ~features[lastOp.id].active

\* C6: executeFeature with an id the registry does not hold throws the
\* NotFound error and changes nothing in the registry or on disk.
C6_UnknownIdRefused ==
    [][\A id \in CallerIds :
          (id \notin DOMAIN features /\ ExecuteStart(id)) =>
              /\ lastOp' = Op("executeFeature", id, "threw",
                              <<"Feature not found">>)
              /\ UNCHANGED registryVars]_vars

\* a call with the id of a feature that was registered and then deleted
C6_Witness ==
    /\ lastOp = Op("executeFeature", "faulty-1", "threw",
                   <<"Feature not found">>)
    /\ "faulty.js" \notin DOMAIN files
    /\ "faulty-1" \notin DOMAIN features

\* C7: once no call on a feature is in flight, its usageCount is the number
\* of calls on it that returned.
C7_UsageCountsSuccesses ==
    \A id \in DOMAIN features :
        calls[id].inflight = 0 => features[id].usageCount = calls[id].ok

C9_DeleteIsAllOrNothing ==
    [][\A id \in DOMAIN features :
          DeleteFeature(id) =>
              \/ /\ lastOp'.outcome = "returned"
                 /\ id \notin DOMAIN features'
                 /\ features[id].filename \notin DOMAIN files'
              \/ /\ lastOp'.outcome = "threw"
                 /\ features' = features
                 /\ files' = files]_vars

\* a delete that returned: the file and the entry are gone
C9_Witness ==
    /\ lastOp.op = "deleteFeature"
    /\ lastOp.outcome = "returned"
    /\ Len(lastOp.detail) = 1
    /\ lastOp.detail[1] \notin DOMAIN files
    /\ lastOp.id \notin DOMAIN features

HealthFailed(op) == op.detail[1] \notin {"absent", "healthy"}
ExecuteFailed(op) == op.detail[2] \in {"threw", "Test timeout"}

-----------------------------------------------------------------------------
(* The Feature Registry (Spec): errors of executeFeature, deactivation,    *)
(* loading.                                                                *)

\* C11: when the callee of an executeFeature call fails, the call throws
\* 'Feature execution failed' followed by the callee's message, and the
\* feature (its active flag with it) is left as it was.
C11_CalleeFailureSurfaces ==
    [][\A id \in DOMAIN features :
          (ExecuteFinish(id) /\ lastOp'.outcome = "threw") =>
              /\ lastOp'.detail = <<"Feature execution failed", "callee error">>
              /\ features' = features]_vars

\* a call has failed inside the callee of a feature that is still active
C11_Witness ==
    /\ lastOp.op = "executeFeature"
    /\ lastOp.outcome = "threw"
    /\ lastOp.detail = <<"Feature execution failed", "callee error">>
    /\ lastOp.id \in DOMAIN features
    /\ features[lastOp.id].active
    /\ calls[lastOp.id].failed > 0

\* the kind of an error thrown by executeFeature: what its message opens with
ErrorKind(op) == op.detail[1]

\* C12: the error executeFeature throws for lack of an entry point is of a
\* kind of its own: not NotFound, not Inactive, not InvocationFailed.
C12_NoEntryPointIsAKind ==
    (/\ lastOp.op = "executeFeature"
     /\ lastOp.outcome = "threw"
     /\ "No executable method found in feature" \in Range(lastOp.detail)) =>
        ErrorKind(lastOp) \notin {"Feature not found", "Feature is inactive",
                                  "Feature execution failed"}

\* C13: deactivateFeature returns without error; on a registered feature it
\* leaves active = FALSE and everything else as it was, whether the feature
\* was active or not, and on an unknown id it changes nothing; doing it
\* twice leaves what doing it once leaves.
C13_DeactivateIdempotent ==
    [][\A id \in CallerIds :
          DeactivateFeature(id) =>
              /\ lastOp'.outcome = "returned"
              /\ features' = IF id \in DOMAIN features
                                THEN [features EXCEPT ![id].active = FALSE]
                                ELSE features
              /\ deactivateFeature(features', id) = features'
              /\ UNCHANGED <<files, calls, clock>>]_vars

\* deactivateFeature has returned on a feature that was inactive already
C13_Witness ==
    /\ lastOp = Op("deactivateFeature", lastOp.id, "returned", <<"inactive">>)
    /\ lastOp.id \in DOMAIN features
    /\ ~features[lastOp.id].active

\* the features registered from file f
FeaturesOf(f) == {id \in DOMAIN features : features[id].filename = f}

\* C14 as stated: after loadAllFeatures, a file that does not parse or whose
\* module has no entry point has no feature, and every other .js file has one.
C14_BadUnitsSkipped ==
    lastOp.op = "loadAllFeatures" =>
        \A f \in DOMAIN files :
            IF EndsWithJs(f) /\ files[f].module.parses
                             /\ EntryPoint(files[f].module) # "none"
               THEN FeaturesOf(f) # {}
               ELSE FeaturesOf(f) = {}

\* C14 amended: loadAllFeatures returns, never throws for a file; after it a
\* file that does not load has no feature, every .js file that loads has one
\* (with or without an entry point), and what it returned is the whole Map.
C14_UnloadableUnitsSkipped ==
    lastOp.op = "loadAllFeatures" =>
        /\ lastOp.outcome = "returned"
        /\ Range(lastOp.detail) = DOMAIN features
        /\ \A f \in DOMAIN files :
              IF EndsWithJs(f) /\ files[f].module.parses
                 THEN /\ FeaturesOf(f) # {}
                      /\ \A id \in FeaturesOf(f) :
                            features[id].module = files[f].module
                 ELSE FeaturesOf(f) = {}

\* a scan over a root holding a file that does not parse, a file that is not
\* JavaScript and two that load, one of them without an entry point
C14_Witness ==
    /\ lastOp.op = "loadAllFeatures"
    /\ \E f \in DOMAIN files : EndsWithJs(f) /\ ~files[f].module.parses
    /\ \E f \in DOMAIN files : ~EndsWithJs(f)
    /\ \E id \in DOMAIN features : EntryPoint(features[id].module) = "none"
    /\ \E id \in DOMAIN features : EntryPoint(features[id].module) # "none"

-----------------------------------------------------------------------------
(* Integration and reload (PipelineSpec).                                  *)

\* C15: once loadAllFeatures has scanned the storage root, every file that
\* integrateFeature wrote has a feature, and that feature has the id, the
\* category and the complexity of the plan it was integrated for (those the
\* feature integrateFeature returns is built from).
C15_IntegratedFeatureReloads ==
    lastOp.op = "loadAllFeatures" =>
        \A f \in DOMAIN files :
            files[f].via = "integrate" =>
                \E id \in DOMAIN features :
                    /\ features[id].filename = f
                    /\ id = files[f].plan.id
                    /\ features[id].category = files[f].plan.category
                    /\ features[id].complexity = files[f].plan.complexity

-----------------------------------------------------------------------------
(* SafetyManager.validatePlan and performStaticAnalysis, as evolve() calls  *)
(* them (PipelineSpec).                                                    *)

Validated == evo.safetyCheck # NoReport
Analysed == evo.sandboxResult # NoResult

PlanPaths(plan) ==
    IF "files" \in plan.keys
       THEN {plan.files[i].path : i \in DOMAIN plan.files} ELSE {}

PlanDependencies(plan) ==
    IF "dependencies" \in plan.keys THEN plan.dependencies ELSE <<>>

Disallowed(plan) == Range(PlanDependencies(plan)) \ Range(allowedModules)

\* the first of the four checks that the plan fails, "none" if it fails none
FirstFailingCheck(plan) ==
    IF \E k \in requiredKeys : k \notin plan.keys THEN "schema"
    ELSE IF SchemaError(plan) # <<>> THEN "schema"
    ELSE IF SerializedTerms(plan) # {} THEN "content"
    ELSE IF \E p \in PlanPaths(plan) : ~StartsWithDynamic(p) THEN "path"
    ELSE IF Disallowed(plan) # {} THEN "dependency"
    ELSE NoValue

\* the check a report's reason comes from
ReportedCheck(report) ==
    CASE report.approved -> NoValue
      [] report.reason[1] = "Plan validation failed" -> "schema"
      [] report.reason[1] = "Suspicious keyword detected" -> "content"
      [] report.reason[1] = "Unsafe file path" -> "path"
      [] report.reason[1] = "Dependency is not in the allowed modules list" ->
            "dependency"
      [] OTHER -> "other"

\* C16: the report of validatePlan comes from the first check the plan fails,
\* in the order schema, content, path, dependency, and approves when it fails
\* none; a report from the schema check (every plan missing a required key
\* gets one) has approved = FALSE and severity "high".
C16_FirstFailingCheckReported ==
    Validated =>
        /\ ReportedCheck(evo.safetyCheck) = FirstFailingCheck(evo.plan)
        /\ evo.safetyCheck.approved <=> FirstFailingCheck(evo.plan) = NoValue
        /\ FirstFailingCheck(evo.plan) = "schema" =>
              ~evo.safetyCheck.approved /\ evo.safetyCheck.severity = "high"

\* a plan that misses a required key and also holds a denylisted word got the
\* schema check's report
C16_Witness ==
    /\ Validated
    /\ \E k \in requiredKeys : k \notin evo.plan.keys
    /\ SerializedTerms(evo.plan) # {}
    /\ ReportedCheck(evo.safetyCheck) = "schema"
    /\ evo.safetyCheck.severity = "high"

\* C17 as stated: the plan of Scenario A, and every plan whose text holds a
\* denylisted word, is rejected with a reason that holds such a word of it.
C17_DenylistedTermNamed ==
    (Validated /\ SerializedTerms(evo.plan) # {}) =>
        /\ ~evo.safetyCheck.approved
        /\ Range(evo.safetyCheck.reason) \cap SerializedTerms(evo.plan) # {}

\* C17 amended: every plan whose text holds a denylisted word is rejected;
\* when it passes the schema check the reason is the keyword report naming,
\* of the denylisted words it holds, the first in the denylist's order.
C17_FirstDenylistedTermNamed ==
    (Validated /\ SerializedTerms(evo.plan) # {}) =>
        /\ ~evo.safetyCheck.approved
        /\ SchemaError(evo.plan) = <<>> =>
              /\ evo.safetyCheck.severity = "high"
              /\ Len(evo.safetyCheck.reason) = 2
              /\ evo.safetyCheck.reason[1] = "Suspicious keyword detected"
              /\ evo.safetyCheck.reason[2] \in SerializedTerms(evo.plan)
              /\ \A i, j \in DOMAIN suspiciousKeywords :
                    (/\ suspiciousKeywords[i] = evo.safetyCheck.reason[2]
                     /\ suspiciousKeywords[j] \in SerializedTerms(evo.plan)) =>
                        i <= j

\* a plan that passes the schema check and holds two denylisted words (and a
\* path outside dynamic/) was rejected naming the one that comes first
C17_Witness ==
    /\ Validated
    /\ SchemaError(evo.plan) = <<>>
    /\ SerializedTerms(evo.plan) = {"hack", "shell"}
    /\ \E p \in PlanPaths(evo.plan) : ~StartsWithDynamic(p)
    /\ evo.safetyCheck.reason = <<"Suspicious keyword detected", "hack">>

\* a path with its "." and ".." segments resolved against the directory the
\* process runs in
RECURSIVE Normalize(_, _)
Normalize(segments, stack) ==
    IF segments = <<>> THEN stack
    ELSE LET h == Head(segments)
             t == Tail(segments)
         IN  IF h \in {"", "."} THEN Normalize(t, stack)
             ELSE IF h = ".." /\ stack # <<>> /\ Last(stack) # ".."
                 THEN Normalize(t, SubSeq(stack, 1, Len(stack) - 1))
             ELSE Normalize(t, Append(stack, h))

ResolvesInsideRoot(path) ==
    /\ Segments(path)[1] # ""
    /\ LET n == Normalize(Segments(path), <<>>)
       IN  Len(n) >= 2 /\ n[1] = "dynamic"

\* C18: a plan that validatePlan approved declares only file paths that
\* resolve inside dynamic/.
C18_ApprovedPathsInsideRoot ==
    (Validated /\ evo.safetyCheck.approved) =>
        \A p \in PlanPaths(evo.plan) : ResolvesInsideRoot(p)

\* the reason of a report names the first declared dependency that the
\* allow-list lacks
NamesFirstDisallowed(report, plan) ==
    /\ Len(report.reason) = 2
    /\ report.reason[1] = "Dependency is not in the allowed modules list"
    /\ \E i \in DOMAIN PlanDependencies(plan) :
          /\ PlanDependencies(plan)[i] = report.reason[2]
          /\ PlanDependencies(plan)[i] \in Disallowed(plan)
          /\ \A j \in 1..(i - 1) : PlanDependencies(plan)[j] \notin Disallowed(plan)

\* C19 as stated: validatePlan approves only plans whose dependencies are all
\* allowed, and rejects every other plan with a reason naming the first
\* disallowed dependency.
C19_DisallowedDependencyNamed ==
    Validated =>
        IF Disallowed(evo.plan) = {}
           THEN TRUE
           ELSE /\ ~evo.safetyCheck.approved
                /\ NamesFirstDisallowed(evo.safetyCheck, evo.plan)

\* C19 amended: validatePlan approves only plans whose dependencies are all
\* allowed; a plan with a disallowed dependency that passes the schema,
\* content and path checks is rejected with severity "medium" and a reason
\* naming the first disallowed dependency; a plan with no dependency is not
\* rejected by the dependency check.
C19_DependencyCheckLast ==
    Validated =>
        /\ Disallowed(evo.plan) # {} => ~evo.safetyCheck.approved
        /\ (Disallowed(evo.plan) # {}
            /\ FirstFailingCheck(evo.plan) = "dependency") =>
              /\ evo.safetyCheck.severity = "medium"
              /\ NamesFirstDisallowed(evo.safetyCheck, evo.plan)
        /\ PlanDependencies(evo.plan) = <<>> =>
              ReportedCheck(evo.safetyCheck) # "dependency"

\* a plan with two disallowed dependencies, an allowed one between them, was
\* rejected naming the first
C19_Witness ==
    /\ Validated
    /\ PlanDependencies(evo.plan) = <<"express", "lodash", "axios">>
    /\ evo.safetyCheck.reason =
          <<"Dependency is not in the allowed modules list", "express">>
    /\ evo.safetyCheck.severity = "medium"

\* the first banned pattern, in the order of the list, that the code holds
FirstBanned(code) ==
    bannedPatterns[CHOOSE i \in code.patterns : \A j \in code.patterns : i <= j]

\* C20 as stated: every code text holding a banned pattern is rejected by the
\* static analysis with a reason naming the first such pattern of the list.
C20_BannedPatternNamed ==
    (Analysed /\ evo.code.patterns # {}) =>
        /\ ~evo.sandboxResult.safe
        /\ evo.sandboxResult.ran = <<"static">>
        /\ evo.sandboxResult.reason =
              <<"Banned pattern detected", FirstBanned(evo.code)>>

\* C20 amended: every code text holding a banned pattern is rejected by the
\* static analysis; when its length is within maxFileSize the reason names
\* the first such pattern of the list, otherwise the reason is its size.
C20_BannedPatternNamedWithinSize ==
    (Analysed /\ evo.code.patterns # {}) =>
        /\ ~evo.sandboxResult.safe
        /\ evo.sandboxResult.ran = <<"static">>
        /\ evo.sandboxResult.reason =
              IF evo.code.length > maxFileSize
                 THEN <<"Code size exceeds maximum allowed",
                        ToString(evo.code.length), ToString(maxFileSize)>>
                 ELSE <<"Banned pattern detected", FirstBanned(evo.code)>>

\* a text that calls eval( and process.exit was rejected naming process.exit,
\* which comes first in the list
C20_Witness ==
    /\ Analysed
    /\ evo.code.patterns = {8, 20}
    /\ evo.sandboxResult.reason = <<"Banned pattern detected", "process.exit">>

-----------------------------------------------------------------------------
(* SafetyManager's checks of a code text, called on their own (SafetySpec). *)

Called(op) == probe.op = op

SizeReason(code) ==
    <<"Code size exceeds maximum allowed", ToString(code.length),
      ToString(maxFileSize)>>

\* C21: performStaticAnalysis rejects every text longer than maxFileSize with
\* a reason citing its length and the maximum, whatever patterns it holds and
\* however complex it is; it rejects no text of length maxFileSize for size.
C21_OversizeRejectedFirst ==
    Called("performStaticAnalysis") =>
        /\ probe.input.length > maxFileSize =>
              ~probe.out.safe /\ probe.out.reason = SizeReason(probe.input)
        /\ (probe.input.length = maxFileSize /\ ~probe.out.safe) =>
              probe.out.reason[1] # "Code size exceeds maximum allowed"

\* a text one over the size limit that also holds a banned pattern and has
\* too many lines and functions was rejected for its size
C21_Witness ==
    /\ Called("performStaticAnalysis")
    /\ probe.input.length = maxFileSize + 1
    /\ probe.input.patterns # {}
    /\ probe.input.lines > 500
    /\ probe.input.functionCount > 20
    /\ probe.out.reason = SizeReason(probe.input)

HighRisk(code) == code.lines > 500 \/ code.functionCount > 20
MediumRisk(code) ==
    ~HighRisk(code) /\ (code.loopCount > 10 \/ code.conditionalCount > 15)

\* C22: analyzeComplexity yields risk high exactly when lines > 500 or
\* functions > 20, medium exactly when it is not high and loops > 10 or
\* conditionals > 15, low otherwise; performStaticAnalysis rejects a text for
\* complexity only when the risk is high, and a text within the size limit
\* and without banned pattern is accepted unless the risk is high.
C22_ComplexityRisk ==
    /\ Called("analyzeComplexity") =>
          /\ probe.out.risk = "high" <=> HighRisk(probe.input)
          /\ probe.out.risk = "medium" <=> MediumRisk(probe.input)
          /\ probe.out.risk = "low" <=>
                ~HighRisk(probe.input) /\ ~MediumRisk(probe.input)
    /\ Called("performStaticAnalysis") =>
          /\ (~probe.out.safe
              /\ probe.out.reason[1] = "Code complexity too high") =>
                 HighRisk(probe.input)
          /\ (/\ probe.input.length <= maxFileSize
              /\ probe.input.patterns = {}) =>
                 (probe.out.safe <=> ~HighRisk(probe.input))

\* a text at the line and function limits and over the loop and conditional
\* limits passed the static analysis
C22_Witness ==
    /\ Called("performStaticAnalysis")
    /\ probe.input.lines = 500 /\ probe.input.functionCount = 20
    /\ probe.input.loopCount = 11 /\ probe.input.conditionalCount = 16
    /\ MediumRisk(probe.input)
    /\ probe.out.safe

TimedOut(code) == code.vm.executionTime > maxExecutionTime

\* C23: a sandbox run that exceeds maxExecutionTime is never reported safe,
\* and it leaves no sandbox context alive: the contexts alive after the call
\* are those alive before it.
C23_TimeoutLeavesNoContext ==
    [][(PerformDynamicTesting /\ TimedOut(probe'.input)) =>
          /\ ~probe'.out.safe
          /\ probe'.live = probe.live]_vars

\* C24: every result of performDynamicTesting, safe or not, carries the
\* elapsed time and the heap delta.
C24_MetricsOnEveryResult ==
    Called("performDynamicTesting") =>
        {"executionTime", "memoryDelta"} \subseteq DOMAIN probe.out.metrics

Refused(code) == Range(code.requires) \ Range(allowedModules)

\* the sandbox's require returns a module exactly for the names of the list,
\* and throws for every other name
RequireOnlyAllowed ==
    Called("require") =>
        IF probe.input \in Range(allowedModules)
           THEN probe.out.threw = <<>> /\ probe.out.returned = probe.input
           ELSE /\ probe.out.returned = NoValue
                /\ probe.out.threw =
                      <<"Module is not allowed in sandbox", probe.input>>

\* C25 as stated: the sandbox's require returns a module only for the names
\* of the allowed-module list and throws for every other name, and the run of
\* every text that asks for another name is rejected.
C25_DisallowedRequireRejectsRun ==
    /\ RequireOnlyAllowed
    /\ (Called("performDynamicTesting") /\ Refused(probe.input) # {}) =>
          ~probe.out.safe

\* C25 amended: the sandbox's require returns a module only for the names of
\* the allowed-module list and throws for every other name; the run of a text
\* that asks for another name and does not catch the error is rejected, with
\* a reason naming the first such module it asked for.
C25_UncaughtRequireRejectsRun ==
    /\ RequireOnlyAllowed
    /\ (/\ Called("performDynamicTesting")
        /\ Refused(probe.input) # {}
        /\ ~probe.input.guarded) =>
          /\ ~probe.out.safe
          /\ Len(probe.out.reason) = 3
          /\ probe.out.reason[1] = "Dynamic testing failed"
          /\ probe.out.reason[2] = "Module is not allowed in sandbox"
          /\ \E i \in DOMAIN probe.input.requires :
                /\ probe.input.requires[i] = probe.out.reason[3]
                /\ probe.input.requires[i] \in Refused(probe.input)
                /\ \A j \in 1..(i - 1) :
                      probe.input.requires[j] \notin Refused(probe.input)

\* a text that asked for crypto, os and dns was rejected naming os
C25_Witness ==
    /\ Called("performDynamicTesting")
    /\ probe.input.requires = <<"crypto", "os", "dns">>
    /\ probe.out.reason =
          <<"Dynamic testing failed", "Module is not allowed in sandbox", "os">>

-----------------------------------------------------------------------------
(* The registry across reloads (Spec).                                     *)

\* C26: a feature that is inactive stays inactive for as long as the registry
\* holds its id: no operation, loadAllFeatures included, makes it active
\* again.
C26_DeactivationSurvivesReload ==
    [][\A id \in DOMAIN features \cap DOMAIN features' :
          ~features[id].active => ~features'[id].active]_vars

-----------------------------------------------------------------------------
(* Failed evolutions and the artifacts of integration (PipelineSpec).      *)

\* the registry entries made from the file integrateFeature wrote for the
\* candidate (plan, code)
FromCandidate(plan, code) ==
    {id \in DOMAIN features :
        LET f == features[id].filename
        IN  /\ f \in DOMAIN files
            /\ files[f].via = "integrate"
            /\ files[f].plan = plan
            /\ files[f].code = code}

C29_EachCandidateRegistered ==
    \A f \in DOMAIN files :
        files[f].via = "integrate" =>
            \E id \in DOMAIN features : features[id].filename = f

-----------------------------------------------------------------------------
(* The process as it starts and serves (ServerSpec).                       *)

EntriesOf(f) == {id \in DOMAIN features : features[id].filename = f}

\* C27: once loadAllFeatures has run, however often, the registry holds
\* exactly one entry for each loadable .js file of the storage root, and no
\* other entry.
C27_OneEntryPerFile ==
    (app.mounted \/ app.started) =>
        /\ \A f \in Loadable(files) : Cardinality(EntriesOf(f)) = 1
        /\ Cardinality(DOMAIN features) = Cardinality(Loadable(files))

\* C30: a request that a mounted dynamic route takes invokes the function of
\* the module that the route's handler field names.
C30_RouteInvokesItsHandler ==
    app.response.invoked # NoValue =>
        app.response.invoked = app.response.handler

=============================================================================
